---- MODULE Spec2Model ----
(***************************************************************************)
(* Model of scripts/identify_top_8_rotation.py: load the player box        *)
(* scores, filter them to the Las Vegas Aces, resolve the player / minutes *)
(* columns, normalise minutes, aggregate by player, rank the top 8 and     *)
(* derive the detailed per-player statistics.                              *)
(*                                                                         *)
(* A cell of a data frame is NA (NaN / None), Str(s) with s the sequence   *)
(* of its characters, or Num(n).  Minutes are kept in sixtieths of a       *)
(* minute, so that M + SS/60 is the integer 60*M + SS.  A quotient is the  *)
(* pair of its numerator and denominator, or Inf, or NaN.                  *)
(***************************************************************************)
EXTENDS Integers, Sequences, FiniteSets

VARIABLES
    source,          \* what pd.read_parquet finds: "missing" or a data frame
    pc,              \* position of the script
    df,              \* the loaded data frame [columns, rows]
    df_lva,          \* the filtered data frame [columns, rows]
    log,             \* the "-> By ..." lines printed by the filter chain
    player_id_col,   \* resolved column names, None when unresolved
    player_name_col,
    minutes_col,
    player_summary,  \* sequence of summary rows
    top_8,           \* sequence of summary rows
    detailed_stats,  \* sequence of detailed rows
    files            \* the CSV files written so far

vars == <<source, pc, df, df_lva, log, player_id_col, player_name_col,
          minutes_col, player_summary, top_8, detailed_stats, files>>

-----------------------------------------------------------------------------
(* Cells and text *)

NA == [t |-> "na"]
Str(s) == [t |-> "str", s |-> s]
Num(n) == [t |-> "num", v |-> n]

isStr(x) == x.t = "str"
notna(x) == x.t # "na"

None == "None"

\* str.lower() on the characters that occur in the model's texts
LowerChar(c) ==
    CASE c = "A" -> "a" [] c = "C" -> "c" [] c = "E" -> "e" [] c = "G" -> "g"
      [] c = "L" -> "l" [] c = "S" -> "s" [] c = "V" -> "v" [] c = "D" -> "d"
      [] c = "N" -> "n" [] c = "P" -> "p"
      [] OTHER -> c

Lower(s) == [i \in 1..Len(s) |-> LowerChar(s[i])]

\* needle occurs in hay as a contiguous substring
Contains(hay, needle) ==
    \E i \in 0..(Len(hay) - Len(needle)) :
        \A j \in 1..Len(needle) : hay[i + j] = needle[j]

\* str.split(sep): the pieces of s between occurrences of sep
RECURSIVE SplitFrom(_, _, _, _)
SplitFrom(s, sep, i, cur) ==
    IF i > Len(s) THEN <<cur>>
    ELSE IF s[i] = sep THEN <<cur>> \o SplitFrom(s, sep, i + 1, <<>>)
    ELSE SplitFrom(s, sep, i + 1, Append(cur, s[i]))

Split(s, sep) == SplitFrom(s, sep, 1, <<>>)

Digits == {"0", "1", "2", "3", "4", "5", "6", "7", "8", "9"}

DigitVal(c) ==
    CASE c = "0" -> 0 [] c = "1" -> 1 [] c = "2" -> 2 [] c = "3" -> 3
      [] c = "4" -> 4 [] c = "5" -> 5 [] c = "6" -> 6 [] c = "7" -> 7
      [] c = "8" -> 8 [] c = "9" -> 9

\* int(s) succeeds on a non-empty run of digits, and raises ValueError otherwise
IsInt(s) == Len(s) > 0 /\ \A i \in 1..Len(s) : s[i] \in Digits

RECURSIVE IntOf(_)
IntOf(s) ==
    IF Len(s) = 0 THEN 0
    ELSE 10 * IntOf(SubSeq(s, 1, Len(s) - 1)) + DigitVal(s[Len(s)])

-----------------------------------------------------------------------------
(* Configuration *)

LVA_TEAM_IDS == {Str(<<"1", "6">>)}

LVA_TEAM_NAMES ==
    { Str(<<"L","a","s"," ","V","e","g","a","s"," ","A","c","e","s">>),
      Str(<<"L","V"," ","A","c","e","s">>),
      Str(<<"L","V","A">>),
      Str(<<"L","a","s"," ","V","e","g","a","s">>) }

\* the alternatives of the pattern 'Vegas|Aces|LV'
PartialPatterns == { <<"V","e","g","a","s">>, <<"A","c","e","s">>, <<"L","V">> }

LVA_ABBREVIATIONS == {Str(<<"L","V">>), Str(<<"L","V","A">>)}

IdAliases == <<"athlete_id", "player_id", "id">>
NameAliases == <<"athlete_display_name", "player_name", "name">>
MinutesAliases == <<"minutes", "min", "mp">>

StatAliases ==
    << "field_goals_made", "fgm", "field_goals_attempted", "fga",
       "three_point_field_goals_made", "fg3m",
       "three_point_field_goals_attempted", "fg3a",
       "free_throws_made", "ftm", "free_throws_attempted", "fta",
       "points", "pts", "assists", "ast", "rebounds", "reb",
       "offensive_rebounds", "orb", "defensive_rebounds", "drb",
       "steals", "stl", "blocks", "blk", "turnovers", "tov" >>

TopN == 8

-----------------------------------------------------------------------------
(* Data frames: [columns |-> set of names, rows |-> sequence of rows], a row *)
(* being a function from the column names to cells                          *)

EmptyFrame == [columns |-> {}, rows |-> <<>>]

Min(a, b) == IF a < b THEN a ELSE b

RECURSIVE SumSeq(_)
SumSeq(s) == IF Len(s) = 0 THEN 0 ELSE s[1] + SumSeq(Tail(s))

Column(rows, c) == [i \in 1..Len(rows) |-> rows[i][c]]

-----------------------------------------------------------------------------
(* STEP 2: the filter chain *)

ByTeamId(rows) == SelectSeq(rows, LAMBDA r : r["team_id"] \in LVA_TEAM_IDS)

ByTeamName(rows) ==
    SelectSeq(rows, LAMBDA r : r["team_display_name"] \in LVA_TEAM_NAMES)

\* str.contains('Vegas|Aces|LV', case=False, na=False)
MatchesPartial(x) ==
    /\ isStr(x)
    /\ \E p \in PartialPatterns : Contains(Lower(x.s), Lower(p))

ByPartial(rows) == SelectSeq(rows, LAMBDA r : MatchesPartial(r["team_display_name"]))

ByAbbreviation(rows) ==
    SelectSeq(rows, LAMBDA r : r["team_abbreviation"] \in LVA_ABBREVIATIONS)

Approach1Applies(d, lva) == "team_id" \in d.columns

Approach2Applies(d, lva) ==
    Len(lva.rows) = 0 /\ "team_display_name" \in d.columns

\* the partial match without its len(df_lva) == 0 test
Approach3Applies_NoLenTest(d, lva) == "team_display_name" \in d.columns

Approach3Applies(d, lva) ==
    Len(lva.rows) = 0 /\ "team_display_name" \in d.columns

Approach4Applies(d, lva) ==
    Len(lva.rows) = 0 /\ "team_abbreviation" \in d.columns

\* the exit test that looks at the columns instead of the rows
NoTeamRows_ColumnsOnly(lva) == lva.columns = {}

\* if len(df_lva) == 0
NoTeamRows(lva) == Len(lva.rows) = 0

-----------------------------------------------------------------------------
(* STEP 4: column resolution and minutes conversion *)

\* for col in aliases: if col in columns: found = col; break
FirstPresent(aliases, columns) ==
    IF \E i \in 1..Len(aliases) : aliases[i] \in columns
    THEN aliases[CHOOSE i \in 1..Len(aliases) :
                    /\ aliases[i] \in columns
                    /\ \A j \in 1..(i - 1) : aliases[j] \notin columns]
    ELSE None

\* df_lva[minutes_col].dtype == 'object'
IsObjectColumn(frame, c) ==
    \E i \in 1..Len(frame.rows) : isStr(frame.rows[i][c])

\* the lambda of the apply raises ValueError: int() or float() of a text
\* that is no number
LambdaRaises(x) ==
    /\ isStr(x)
    /\ IF Contains(x.s, <<":">>)
       THEN LET parts == Split(x.s, ":")
            IN  ~IsInt(parts[1]) \/ ~IsInt(parts[2])
       ELSE ~IsInt(x.s)

\* int(split[0]) + int(split[1])/60 if str with ':' else float(x) if notna else 0
LambdaValue(x) ==
    IF isStr(x) /\ Contains(x.s, <<":">>)
    THEN LET parts == Split(x.s, ":")
         IN  60 * IntOf(parts[1]) + IntOf(parts[2])
    ELSE IF notna(x)
         THEN (IF isStr(x) THEN 60 * IntOf(x.s) ELSE 60 * x.v)
         ELSE 0

\* pd.to_numeric(x, errors='coerce') followed by fillna(0)
CoerceValue(x) ==
    IF isStr(x) THEN (IF IsInt(x.s) THEN 60 * IntOf(x.s) ELSE 0)
    ELSE IF notna(x) THEN 60 * x.v
    ELSE 0

\* the whole column: one raising cell sends every cell through the except branch
MinutesDecimal(frame, c) ==
    LET cells == Column(frame.rows, c)
    IN  IF IsObjectColumn(frame, c)
        THEN IF \E i \in 1..Len(cells) : LambdaRaises(cells[i])
             THEN [i \in 1..Len(cells) |-> CoerceValue(cells[i])]
             ELSE [i \in 1..Len(cells) |-> LambdaValue(cells[i])]
        ELSE [i \in 1..Len(cells) |-> CoerceValue(cells[i])]

WithMinutesDecimal(frame, c) ==
    LET md == MinutesDecimal(frame, c)
    IN  [columns |-> frame.columns \cup {"minutes_decimal"},
         rows |-> [i \in 1..Len(frame.rows) |->
                     [k \in frame.columns \cup {"minutes_decimal"} |->
                         IF k = "minutes_decimal" THEN md[i]
                         ELSE frame.rows[i][k]]]]

-----------------------------------------------------------------------------
(* Quotients, as pandas divides: x/0 is inf, 0/0 is NaN *)

NaNQ == [t |-> "nan"]
InfQ == [t |-> "inf"]

Divide(a, b) ==
    IF b = 0 THEN (IF a = 0 THEN NaNQ ELSE InfQ)
    ELSE [t |-> "ratio", n |-> a, d |-> b]

-----------------------------------------------------------------------------
(* groupby([id, name]).agg(...) *)

\* the group keys: groupby drops the rows whose key has a missing part
GroupKeys(rows, idc, namec) ==
    { <<rows[i][idc], rows[i][namec]>> : i \in
        { j \in 1..Len(rows) : notna(rows[j][idc]) /\ notna(rows[j][namec]) } }

GroupRows(rows, idc, namec, key) ==
    SelectSeq(rows, LAMBDA r : r[idc] = key[1] /\ r[namec] = key[2])

\* 'sum' skips missing values
SumColumn(rows, c) ==
    SumSeq([i \in 1..Len(rows) |->
              IF c = "minutes_decimal" THEN rows[i][c]
              ELSE IF rows[i][c].t = "num" THEN rows[i][c].v ELSE 0])

\* 'count' in the place of 'nunique': the rows with a value
NUnique_RowCount(rows, c) ==
    Cardinality({ j \in 1..Len(rows) : notna(rows[j][c]) })

\* 'nunique' counts the distinct values that are not missing
NUnique(rows, c) ==
    Cardinality({ rows[i][c] : i \in { j \in 1..Len(rows) : notna(rows[j][c]) } })

SummaryRow(rows, idc, namec, key) ==
    LET g == GroupRows(rows, idc, namec, key)
        total == SumColumn(g, "minutes_decimal")
        games == NUnique(g, "game_id")
    IN  [player_id |-> key[1], player_name |-> key[2],
         total_minutes |-> total, games |-> games,
         mpg |-> Divide(total, games)]

Summaries(frame, idc, namec) ==
    { SummaryRow(frame.rows, idc, namec, k) :
        k \in GroupKeys(frame.rows, idc, namec) }

\* sort_values without ascending=False
RECURSIVE AscendingOrders(_, _)
AscendingOrders(S, key) ==
    IF S = {} THEN {<<>>}
    ELSE UNION { { <<m>> \o rest : rest \in AscendingOrders(S \ {m}, key) } :
                 m \in { x \in S : \A y \in S : key[x] <= key[y] } }

\* sort_values(key, ascending=False): every order of the rows that descends
\* in the key; the order among equal keys is left to the sort
RECURSIVE DescendingOrders(_, _)
DescendingOrders(S, key) ==
    IF S = {} THEN {<<>>}
    ELSE UNION { { <<m>> \o rest : rest \in DescendingOrders(S \ {m}, key) } :
                 m \in { x \in S : \A y \in S : key[y] <= key[x] } }

\* head(n)
HeadN(s, n) == SubSeq(s, 1, Min(n, Len(s)))

-----------------------------------------------------------------------------
(* STEP 5: detailed stats of the top 8 *)

Top8Rows(frame, idc, top) ==
    SelectSeq(frame.rows,
              LAMBDA r : r[idc] \in { top[i].player_id : i \in 1..Len(top) })

StatCols(columns) == SelectSeq(StatAliases, LAMBDA c : c \in columns)

SeqToSet(s) == { s[i] : i \in 1..Len(s) }

\* fg_pct and fg3_pct, each from the long spelling if both its columns are
\* there, else from the short one
PctFields(sums) ==
    LET has(c) == c \in DOMAIN sums
        fg == IF has("field_goals_made") /\ has("field_goals_attempted")
              THEN {<<"fg_pct", "field_goals_made", "field_goals_attempted">>}
              ELSE IF has("fgm") /\ has("fga")
              THEN {<<"fg_pct", "fgm", "fga">>}
              ELSE {}
        fg3 == IF has("three_point_field_goals_made")
                  /\ has("three_point_field_goals_attempted")
               THEN {<<"fg3_pct", "three_point_field_goals_made",
                       "three_point_field_goals_attempted">>}
               ELSE IF has("fg3m") /\ has("fg3a")
               THEN {<<"fg3_pct", "fg3m", "fg3a">>}
               ELSE {}
    IN  fg \cup fg3

DetailedRow(rows, idc, namec, key, stats) ==
    LET g == GroupRows(rows, idc, namec, key)
        games == NUnique(g, "game_id")
        sums == [c \in SeqToSet(stats) |-> SumColumn(g, c)]
        pcts == PctFields(sums)
    IN  [player_id |-> key[1], player_name |-> key[2],
         minutes_decimal |-> SumColumn(g, "minutes_decimal"),
         game_id |-> games,
         sums |-> sums,
         pg |-> [c \in SeqToSet(stats) |-> Divide(sums[c], games)],
         pct |-> [f \in { p[1] : p \in pcts } |->
                    LET p == CHOOSE q \in pcts : q[1] = f
                    IN  Divide(sums[p[2]], sums[p[3]])]]

DetailedRows(frame, idc, namec, top) ==
    LET rows == Top8Rows(frame, idc, top)
    IN  { DetailedRow(rows, idc, namec, k, StatCols(frame.columns)) :
            k \in GroupKeys(rows, idc, namec) }

-----------------------------------------------------------------------------
(* The inputs: bounded families of player box score files *)

MaxTeamRows == 2      \* rows of a file whose team fields vary
MaxMinuteRows == 3    \* rows of a file whose minutes cells vary
MaxGroupRows == 3     \* rows of a file whose player and game ids vary
MaxStatRows == 2      \* rows of a file whose shooting counters vary
NumPlayers == 9       \* players of a file with more players than the top 8

DigitChar(d) ==
    CASE d = 0 -> "0" [] d = 1 -> "1" [] d = 2 -> "2" [] d = 3 -> "3"
      [] d = 4 -> "4" [] d = 5 -> "5" [] d = 6 -> "6" [] d = 7 -> "7"
      [] d = 8 -> "8" [] d = 9 -> "9"

Decimal(n) ==
    IF n < 10 THEN <<DigitChar(n)>>
    ELSE <<DigitChar(n \div 10), DigitChar(n % 10)>>

T_16 == Str(<<"1", "6">>)
T_LasVegasAces == Str(<<"L","a","s"," ","V","e","g","a","s"," ","A","c","e","s">>)
T_LVA == Str(<<"L","V","A">>)
T_Silver == Str(<<"S","i","l","v","e","r">>)
T_Storm == Str(<<"S","t","o","r","m">>)
T_LV == Str(<<"L","V">>)
T_SEA == Str(<<"S","E","A">>)
T_A == Str(<<"A">>)
T_B == Str(<<"B">>)
T_DNP == Str(<<"D","N","P">>)
T_12 == Str(<<"1","2">>)
T_0_45 == Str(<<"0",":","4","5">>)
T_32_30 == Str(<<"3","2",":","3","0">>)
MinSec(m) == Str(Decimal(m) \o <<":","0","0">>)
PlayerName(i) == Str(<<"P">> \o Decimal(i))

TeamColumns == {"team_id", "team_display_name", "team_abbreviation"}
MadeColumns == {"field_goals_made", "fgm", "three_point_field_goals_made",
                "fg3m", "free_throws_made", "ftm"}
AttemptedColumns == {"field_goals_attempted", "fga",
                     "three_point_field_goals_attempted", "fg3a",
                     "free_throws_attempted", "fta"}
AllColumns ==
    TeamColumns \cup SeqToSet(IdAliases) \cup SeqToSet(NameAliases)
        \cup SeqToSet(MinutesAliases) \cup {"game_id"} \cup SeqToSet(StatAliases)

PlayerColumns ==
    {"athlete_id", "athlete_display_name", "minutes", "game_id", "points"}

MkRow(tid, tname, tabbr, pid, pname, mins, gid, made, att, other) ==
    [c \in AllColumns |->
        CASE c = "team_id" -> tid
          [] c = "team_display_name" -> tname
          [] c = "team_abbreviation" -> tabbr
          [] c \in SeqToSet(IdAliases) -> pid
          [] c \in SeqToSet(NameAliases) -> pname
          [] c \in SeqToSet(MinutesAliases) -> mins
          [] c = "game_id" -> gid
          [] c \in MadeColumns -> made
          [] c \in AttemptedColumns -> att
          [] OTHER -> other]

AcesRow(pid, pname, mins, gid, made, att) ==
    MkRow(T_16, T_LasVegasAces, T_LV, pid, pname, mins, gid, made, att, Num(5))

Frame(cols, rows) ==
    [columns |-> cols,
     rows |-> [i \in 1..Len(rows) |-> [c \in cols |-> rows[i][c]]]]

SeqsUpTo(S, lo, hi) == UNION { [1..n -> S] : n \in lo..hi }

\* the team fields and the presence of the team columns vary
TeamFrames ==
    LET options == { MkRow(tid, tname, tabbr, Num(1), T_A, MinSec(10), Num(1),
                           Num(0), Num(0), Num(5)) :
                       tid \in {T_16, Num(16)},
                       tname \in {T_LVA, T_Silver, T_Storm, NA},
                       tabbr \in {T_LV, T_SEA} }
    IN  { Frame(PlayerColumns \cup tc, rows) :
            tc \in SUBSET TeamColumns, rows \in SeqsUpTo(options, 0, MaxTeamRows) }

\* the presence of the player, minutes and game columns varies
SchemaFrames ==
    LET rows == << AcesRow(Num(1), T_A, T_32_30, Num(1), Num(1), Num(2)),
                   AcesRow(Num(2), T_B, T_0_45, Num(1), Num(0), Num(0)) >>
    IN  { Frame(TeamColumns \cup ids \cup names \cup mins \cup game \cup {"points"},
                rows) :
            ids \in SUBSET SeqToSet(IdAliases),
            names \in SUBSET SeqToSet(NameAliases),
            mins \in SUBSET SeqToSet(MinutesAliases),
            game \in SUBSET {"game_id"} }

\* the minutes cells vary: a text column, or a numeric one
MinuteFrames ==
    LET row(i, m) == AcesRow(Num(1 + (i % 2)), IF i % 2 = 0 THEN T_A ELSE T_B,
                             m, Num(i), Num(0), Num(0))
        frames(cells) ==
            { Frame(TeamColumns \cup PlayerColumns,
                    [i \in 1..Len(ms) |-> row(i, ms[i])]) :
                ms \in SeqsUpTo(cells, 1, MaxMinuteRows) }
    IN  frames({T_32_30, T_0_45, T_DNP, T_12, NA}) \cup frames({Num(7), NA})

\* the player id, player name and game id vary, and may be missing
GroupFrames ==
    LET options == { AcesRow(k[1], k[2], MinSec(10), g, Num(0), Num(0)) :
                       k \in { <<Num(1), T_A>>, <<Num(2), T_B>>,
                               <<NA, T_A>>, <<Num(1), NA>> },
                       g \in {Num(1), Num(2), NA} }
    IN  { Frame(TeamColumns \cup PlayerColumns, rows) :
            rows \in SeqsUpTo(options, 1, MaxGroupRows) }

\* the shooting columns present, the counters and the game id vary
StatFrames ==
    LET options == { AcesRow(Num(1), T_A, MinSec(10), g, Num(s[1]), Num(s[2])) :
                       g \in {Num(1), NA},
                       s \in { <<0, 0>>, <<1, 2>>, <<2, 2>> } }
    IN  { Frame(TeamColumns \cup PlayerColumns \cup fg \cup fg3 \cup ft, rows) :
            fg \in { {}, {"field_goals_made", "field_goals_attempted"},
                     {"fgm", "fga"}, {"field_goals_made", "fga"} },
            fg3 \in { {}, {"fg3m", "fg3a"} },
            ft \in { {}, {"free_throws_made", "free_throws_attempted"} },
            rows \in SeqsUpTo(options, 1, MaxStatRows) }

\* one row per player, more players than the top 8; the last three players'
\* minutes vary, and the last player may carry the first player's id
RankFrames ==
    LET row(i, pid, m) == AcesRow(pid, PlayerName(i), MinSec(m), Num(1),
                                  Num(0), Num(0))
    IN  { Frame(TeamColumns \cup PlayerColumns,
                [i \in 1..NumPlayers |->
                    row(i,
                        IF i = NumPlayers THEN lastId ELSE Num(i),
                        IF i <= NumPlayers - 3 THEN 40 - i
                        ELSE low[i - (NumPlayers - 3)])]) :
            lastId \in {Num(NumPlayers), Num(1)},
            low \in [1..3 -> {10, 20}] }

InputFrames ==
    TeamFrames \cup SchemaFrames \cup MinuteFrames \cup GroupFrames
        \cup StatFrames \cup RankFrames

MissingFile == [missing |-> TRUE]

-----------------------------------------------------------------------------
(* The script *)

Init ==
    /\ source \in {MissingFile} \cup InputFrames
    /\ pc = "load"
    /\ df = EmptyFrame
    /\ df_lva = EmptyFrame
    /\ log = <<>>
    /\ player_id_col = None
    /\ player_name_col = None
    /\ minutes_col = None
    /\ player_summary = <<>>
    /\ top_8 = <<>>
    /\ detailed_stats = <<>>
    /\ files = {}

\* STEP 1: read the parquet file, or exit on FileNotFoundError
Load ==
    /\ pc = "load"
    /\ IF source = MissingFile
       THEN pc' = "exit_file_not_found" /\ df' = df
       ELSE pc' = "approach1" /\ df' = source
    /\ UNCHANGED <<source, df_lva, log, player_id_col, player_name_col,
                   minutes_col, player_summary, top_8, detailed_stats, files>>

FilterStep(here, next, applies, name, result) ==
    /\ pc = here
    /\ pc' = next
    /\ IF applies
       THEN /\ df_lva' = [columns |-> df.columns, rows |-> result]
            /\ log' = Append(log, <<name, Len(result)>>)
       ELSE UNCHANGED <<df_lva, log>>
    /\ UNCHANGED <<source, df, player_id_col, player_name_col, minutes_col,
                   player_summary, top_8, detailed_stats, files>>

Approach1 ==
    FilterStep("approach1", "approach2", Approach1Applies(df, df_lva),
               "team_id", IF "team_id" \in df.columns
                          THEN ByTeamId(df.rows) ELSE <<>>)

Approach2 ==
    FilterStep("approach2", "approach3", Approach2Applies(df, df_lva),
               "team_display_name", IF "team_display_name" \in df.columns
                                    THEN ByTeamName(df.rows) ELSE <<>>)

Approach3 ==
    FilterStep("approach3", "approach4", Approach3Applies(df, df_lva),
               "partial match", IF "team_display_name" \in df.columns
                                THEN ByPartial(df.rows) ELSE <<>>)

Approach4 ==
    FilterStep("approach4", "check", Approach4Applies(df, df_lva),
               "team_abbreviation", IF "team_abbreviation" \in df.columns
                                    THEN ByAbbreviation(df.rows) ELSE <<>>)

\* if len(df_lva) == 0: exit(1)
CheckFiltered ==
    /\ pc = "check"
    /\ pc' = IF NoTeamRows(df_lva) THEN "exit_no_team_rows" ELSE "save"
    /\ UNCHANGED <<source, df, df_lva, log, player_id_col, player_name_col,
                   minutes_col, player_summary, top_8, detailed_stats, files>>

\* STEP 3
SaveFiltered ==
    /\ pc = "save"
    /\ files' = files \cup {"aces_player_box_2025.csv"}
    /\ pc' = "resolve"
    /\ UNCHANGED <<source, df, df_lva, log, player_id_col, player_name_col,
                   minutes_col, player_summary, top_8, detailed_stats>>

\* STEP 4: the player id, player name and minutes columns
ResolveColumns ==
    /\ pc = "resolve"
    /\ player_id_col' = FirstPresent(IdAliases, df_lva.columns)
    /\ player_name_col' = FirstPresent(NameAliases, df_lva.columns)
    /\ IF player_id_col' = None \/ player_name_col' = None
       THEN /\ pc' = "exit_no_player_columns"
            /\ minutes_col' = minutes_col
       ELSE /\ minutes_col' = FirstPresent(MinutesAliases, df_lva.columns)
            /\ pc' = IF minutes_col' = None THEN "exit_no_minutes_column"
                     ELSE "convert"
    /\ UNCHANGED <<source, df, df_lva, log, player_summary, top_8,
                   detailed_stats, files>>

ConvertMinutes ==
    /\ pc = "convert"
    /\ df_lva' = WithMinutesDecimal(df_lva, minutes_col)
    /\ pc' = "aggregate"
    /\ UNCHANGED <<source, df, log, player_id_col, player_name_col,
                   minutes_col, player_summary, top_8, detailed_stats, files>>

\* groupby/agg, mpg and sort_values; agg raises KeyError without 'game_id'
Aggregate ==
    /\ pc = "aggregate"
    /\ IF "game_id" \notin df_lva.columns
       THEN pc' = "KeyError" /\ player_summary' = player_summary
       ELSE /\ pc' = "top8"
            /\ LET S == Summaries(df_lva, player_id_col, player_name_col)
               IN  player_summary' \in
                       DescendingOrders(S, [r \in S |-> r.total_minutes])
    /\ UNCHANGED <<source, df, df_lva, log, player_id_col, player_name_col,
                   minutes_col, top_8, detailed_stats, files>>

Top8 ==
    /\ pc = "top8"
    /\ top_8' = HeadN(player_summary, TopN)
    /\ files' = files \cup {"aces_top8_rotation_2025.csv",
                            "aces_player_summary_2025.csv"}
    /\ pc' = "detail"
    /\ UNCHANGED <<source, df, df_lva, log, player_id_col, player_name_col,
                   minutes_col, player_summary, detailed_stats>>

\* STEP 5
Detail ==
    /\ pc = "detail"
    /\ LET D == DetailedRows(df_lva, player_id_col, player_name_col, top_8)
       IN  detailed_stats' \in
               DescendingOrders(D, [r \in D |-> r.minutes_decimal])
    /\ files' = files \cup {"aces_top8_detailed_stats_2025.csv"}
    /\ pc' = "done"
    /\ UNCHANGED <<source, df, df_lva, log, player_id_col, player_name_col,
                   minutes_col, player_summary, top_8>>

Next ==
    \/ Load
    \/ Approach1
    \/ Approach2
    \/ Approach3
    \/ Approach4
    \/ CheckFiltered
    \/ SaveFiltered
    \/ ResolveColumns
    \/ ConvertMinutes
    \/ Aggregate
    \/ Top8
    \/ Detail

Spec == Init /\ [][Next]_vars

-----------------------------------------------------------------------------
(* Properties *)

StrategyColumn(k) ==
    CASE k = 1 -> "team_id" [] k = 2 -> "team_display_name"
      [] k = 3 -> "team_display_name" [] k = 4 -> "team_abbreviation"

StrategyName(k) ==
    CASE k = 1 -> "team_id" [] k = 2 -> "team_display_name"
      [] k = 3 -> "partial match" [] k = 4 -> "team_abbreviation"

\* what strategy k selects from the loaded file, taken alone
StrategyResult(k) ==
    IF StrategyColumn(k) \notin df.columns THEN <<>>
    ELSE CASE k = 1 -> ByTeamId(df.rows) [] k = 2 -> ByTeamName(df.rows)
           [] k = 3 -> ByPartial(df.rows) [] k = 4 -> ByAbbreviation(df.rows)

\* the strategies the script has passed
ApproachesDone ==
    CASE pc \in {"load", "exit_file_not_found", "approach1"} -> 0
      [] pc = "approach2" -> 1
      [] pc = "approach3" -> 2
      [] pc = "approach4" -> 3
      [] OTHER -> 4

\* the filtered rows, without the minutes_decimal column added later
FilteredRows ==
    [i \in 1..Len(df_lva.rows) |-> [c \in df.columns |-> df_lva.rows[i][c]]]

LogNames == { log[i][1] : i \in 1..Len(log) }

\* C1: at every point of the filter chain and after it, the filtered rows are
\* the result of the first strategy passed so far, in the order team id,
\* team name, partial match, abbreviation, that selected at least one row;
\* and the strategies applied are exactly those before which every earlier
\* strategy selected nothing, so none is applied after a non-empty result.
C1_FirstNonEmptyStrategy ==
    LET n == ApproachesDone
        winners == { k \in 1..n : Len(StrategyResult(k)) > 0 }
        applied == { k \in 1..n :
                       /\ StrategyColumn(k) \in df.columns
                       /\ \A j \in 1..(k - 1) : Len(StrategyResult(j)) = 0 }
    IN  /\ FilteredRows =
               IF winners = {} THEN <<>>
               ELSE StrategyResult(CHOOSE k \in winners :
                                       \A j \in winners : k <= j)
        /\ LogNames = { StrategyName(k) : k \in applied }
        /\ Len(log) = Cardinality(applied)

\* the team id selected nothing, a later strategy selected the rows, and the
\* abbreviation, which was not applied, would have selected other rows
C1_Witness ==
    /\ pc = "save"
    /\ "team_id" \in df.columns
    /\ Len(StrategyResult(1)) = 0
    /\ Len(df_lva.rows) > 0
    /\ "team_abbreviation" \notin LogNames
    /\ Len(StrategyResult(4)) > 0
    /\ StrategyResult(4) # FilteredRows

RequiredRolesResolvable(cols) ==
    /\ \E i \in 1..Len(IdAliases) : IdAliases[i] \in cols
    /\ \E i \in 1..Len(NameAliases) : NameAliases[i] \in cols
    /\ \E i \in 1..Len(MinutesAliases) : MinutesAliases[i] \in cols
    /\ "game_id" \in cols

\* C2: when one of the four required roles (player id, player name, minutes,
\* game id) has no column in the file, the aggregation step is never
\* executed: the run ends in a missing-field exit, and neither in the
\* aggregation's own exception nor in a later step.
C2_MissingRequiredFieldIsFatal ==
    ( /\ source # MissingFile
      /\ pc \in {"KeyError", "top8", "detail", "done",
                 "exit_no_player_columns", "exit_no_minutes_column"}
      /\ ~RequiredRolesResolvable(df.columns) )
    => pc \in {"exit_no_player_columns", "exit_no_minutes_column"}

AfterConvert == pc \in {"aggregate", "KeyError", "top8", "detail", "done"}
AfterAggregate == pc \in {"top8", "detail", "done"}

IsMinSec(x) ==
    /\ isStr(x)
    /\ LET p == Split(x.s, ":")
       IN  Len(p) = 2 /\ IsInt(p[1]) /\ IsInt(p[2]) /\ IntOf(p[2]) < 60

\* C3: after the conversion, every filtered row whose minutes cell is a text
\* "M:SS" with 0 <= SS < 60 has minutes_decimal = M + SS/60 (60*M + SS
\* sixtieths), whatever the other rows' cells are.
C3_MinSecIsExact ==
    AfterConvert =>
        \A i \in 1..Len(df_lva.rows) :
            LET x == df_lva.rows[i][minutes_col]
            IN  IsMinSec(x) =>
                    df_lva.rows[i]["minutes_decimal"] =
                        60 * IntOf(Split(x.s, ":")[1]) + IntOf(Split(x.s, ":")[2])

\* C4: when all four strategies select nothing, the run never leaves the
\* filter chain except to the no-team-rows exit, and nothing is produced or
\* written.
C4_EntityNotFoundIsFatal ==
    ( /\ pc \notin {"load", "exit_file_not_found"}
      /\ \A k \in 1..4 : Len(StrategyResult(k)) = 0 )
    => /\ pc \in {"approach1", "approach2", "approach3", "approach4", "check",
                  "exit_no_team_rows"}
       /\ files = {}
       /\ player_summary = <<>>
       /\ top_8 = <<>>
       /\ detailed_stats = <<>>

\* a file with rows and all three team columns, on which the four strategies
\* were applied and selected nothing
C4_Witness ==
    /\ pc = "exit_no_team_rows"
    /\ Len(df.rows) > 0
    /\ TeamColumns \subseteq df.columns
    /\ Len(log) = 4

\* C5: after aggregation, the total_minutes of the player summaries add up to
\* the minutes_decimal of all filtered rows.
C5_MinutesConserved ==
    AfterAggregate =>
        SumSeq([i \in 1..Len(player_summary) |-> player_summary[i].total_minutes])
            = SumSeq(Column(df_lva.rows, "minutes_decimal"))

\* the rows of the filtered frame of one (player id, player name) pair
RowsOfPlayer(id, name) ==
    { i \in 1..Len(df_lva.rows) :
        /\ df_lva.rows[i][player_id_col] = id
        /\ df_lva.rows[i][player_name_col] = name }

GamesOfPlayer(id, name) ==
    { df_lva.rows[i]["game_id"] : i \in
        { j \in RowsOfPlayer(id, name) : notna(df_lva.rows[j]["game_id"]) } }

\* C6: games of every player summary, and of every detailed row, is the
\* number of distinct game ids among the player's filtered rows.
C6_GamesIsDistinctCount ==
    /\ AfterAggregate =>
          \A i \in 1..Len(player_summary) :
              player_summary[i].games =
                  Cardinality(GamesOfPlayer(player_summary[i].player_id,
                                            player_summary[i].player_name))
    /\ pc = "done" =>
          \A i \in 1..Len(detailed_stats) :
              detailed_stats[i].game_id =
                  Cardinality(GamesOfPlayer(detailed_stats[i].player_id,
                                            detailed_stats[i].player_name))

\* a player with more rows carrying a game id than distinct game ids
C6_Witness ==
    /\ pc = "done"
    /\ \E i \in 1..Len(player_summary) :
          LET r == player_summary[i]
              withGame == { j \in RowsOfPlayer(r.player_id, r.player_name) :
                              notna(df_lva.rows[j]["game_id"]) }
          IN  r.games >= 1 /\ Cardinality(withGame) > r.games
                /\ \E d \in 1..Len(detailed_stats) :
                      /\ detailed_stats[d].player_id = r.player_id
                      /\ detailed_stats[d].game_id = r.games

PlayerKeys ==
    { <<df_lva.rows[i][player_id_col], df_lva.rows[i][player_name_col]>> :
        i \in { j \in 1..Len(df_lva.rows) :
                  /\ notna(df_lva.rows[j][player_id_col])
                  /\ notna(df_lva.rows[j][player_name_col]) } }

\* C7: the top 8 is the first min(8, number of players) rows of the summary,
\* the summary descends in total minutes, and every player of the top 8 has
\* at least the total minutes of every player left out.
C7_TopNIsPrefixOfSort ==
    pc \in {"detail", "done"} =>
        /\ Len(player_summary) = Cardinality(PlayerKeys)
        /\ Len(top_8) = Min(TopN, Cardinality(PlayerKeys))
        /\ \A i \in 1..Len(top_8) : top_8[i] = player_summary[i]
        /\ \A i, j \in 1..Len(player_summary) :
              i < j => player_summary[i].total_minutes
                          >= player_summary[j].total_minutes
        /\ \A i \in 1..Len(top_8) :
              \A j \in (Len(top_8) + 1)..Len(player_summary) :
                  top_8[i].total_minutes >= player_summary[j].total_minutes

\* more players than 8, with equal minutes on both sides of the cut
C7_Witness ==
    /\ pc = "done"
    /\ Len(player_summary) > TopN
    /\ Len(top_8) = TopN
    /\ player_summary[TopN].total_minutes
          = player_summary[TopN + 1].total_minutes

MadeAliases(pair) ==
    CASE pair = "fg_pct" -> <<"field_goals_made", "fgm">>
      [] pair = "fg3_pct" -> <<"three_point_field_goals_made", "fg3m">>
      [] pair = "ft_pct" -> <<"free_throws_made", "ftm">>

AttemptedAliases(pair) ==
    CASE pair = "fg_pct" -> <<"field_goals_attempted", "fga">>
      [] pair = "fg3_pct" -> <<"three_point_field_goals_attempted", "fg3a">>
      [] pair = "ft_pct" -> <<"free_throws_attempted", "fta">>

\* the spelling (1 long, 2 short) under which both fields of the pair are in
\* the file, the long one first
PairSpellings(pair, cols) ==
    { i \in 1..2 : MadeAliases(pair)[i] \in cols
                     /\ AttemptedAliases(pair)[i] \in cols }

\* C8: for each of the pairs field goals, three-point field goals and free
\* throws whose made and attempted fields are both in the file under the long
\* or under the short spelling, every detailed row has the pct field, equal
\* to made / attempted when attempted > 0 and null when attempted = 0.
C8_PctForEveryPair ==
    pc = "done" =>
        \A pair \in {"fg_pct", "fg3_pct", "ft_pct"} :
            PairSpellings(pair, df.columns) # {}
            => \A d \in 1..Len(detailed_stats) :
                  LET r == detailed_stats[d]
                      k == CHOOSE i \in PairSpellings(pair, df.columns) :
                              \A j \in PairSpellings(pair, df.columns) : i <= j
                      made == r.sums[MadeAliases(pair)[k]]
                      att == r.sums[AttemptedAliases(pair)[k]]
                  IN  /\ pair \in DOMAIN r.pct
                      /\ r.pct[pair] = IF att > 0
                                       THEN [t |-> "ratio", n |-> made, d |-> att]
                                       ELSE NaNQ

KeysOf(s) == { <<s[i].player_id, s[i].player_name>> : i \in 1..Len(s) }

\* C9: the groups of the detailed result are exactly the groups of the top 8,
\* at most 8 of them, each with the minutes and games of its top-8 row.
C9_DetailedIsTopN ==
    pc = "done" =>
        /\ KeysOf(detailed_stats) = KeysOf(top_8)
        /\ Len(detailed_stats) <= TopN
        /\ \A d \in 1..Len(detailed_stats) : \A i \in 1..Len(top_8) :
              ( /\ detailed_stats[d].player_id = top_8[i].player_id
                /\ detailed_stats[d].player_name = top_8[i].player_name )
              => /\ detailed_stats[d].minutes_decimal = top_8[i].total_minutes
                 /\ detailed_stats[d].game_id = top_8[i].games

PerGame(x, games) ==
    IF games > 0 THEN [t |-> "ratio", n |-> x, d |-> games] ELSE NaNQ

\* C10: mpg is total_minutes / games and every per-game field is its counter
\* / games when games > 0, and each is null/NaN when games = 0.
C10_PerGameOrNull ==
    /\ AfterAggregate =>
          \A i \in 1..Len(player_summary) :
              player_summary[i].mpg =
                  PerGame(player_summary[i].total_minutes, player_summary[i].games)
    /\ pc = "done" =>
          \A d \in 1..Len(detailed_stats) :
              \A c \in DOMAIN detailed_stats[d].pg :
                  detailed_stats[d].pg[c] =
                      PerGame(detailed_stats[d].sums[c], detailed_stats[d].game_id)

====
